---- MODULE Spec2Model ----
(***************************************************************************)
(* Model of the RAG request pipeline of src/app/backend.py: class rag,     *)
(* its constructor (parameter resolution) and generate() with the helpers  *)
(* _embed, _index, _entity_extractor, _augment and the three LLM           *)
(* sub-protocols.                                                          *)
(*                                                                         *)
(* Python values are modelled as records [t, s]: t is the Python type      *)
(* ("None", "str", "bool") and s the text of the value.  Strings are TLA+  *)
(* strings and are concatenated with \o as the code concatenates them.     *)
(* Money is counted in units of 10^-9 dollar per token so that the rate    *)
(* table stays integral (0.0021 per 1000 tokens = 2100 units per token).   *)
(* Floats of the sampling parameters are counted in tenths.                *)
(* The elapsed times added by the @timer decorator are not modelled, and   *)
(* the environment variables the backends read are taken to be set.        *)
(***************************************************************************)
EXTENDS Integers, Sequences, FiniteSets, TLC

VARIABLES req, self, pc, calls, embedding, hits, response, http, envelope, error

vars == <<req, self, pc, calls, embedding, hits, response, http, envelope, error>>

(***************************************************************************)
(* Bounds of the model.                                                    *)
(***************************************************************************)
NumChunks == 2          \* rows of the chunk table / vectors of the index
MaxK == 2               \* largest explicit k parameter
MaxChunkLimit == 2      \* largest explicit chunk_limit parameter

(***************************************************************************)
(* Python values.                                                          *)
(***************************************************************************)
None == [t |-> "None", s |-> ""]
Str(x) == [t |-> "str", s |-> x]
PyTrue == [t |-> "bool", s |-> "True"]

\* Python truthiness of the values above: None and '' are falsy.
Truthy(v) == v # None /\ v # Str("")

\* An exception that propagates out of the request.
NoError == [type |-> "", msg |-> ""]
Raise(type, msg) == [type |-> type, msg |-> msg]

(***************************************************************************)
(* The inbound request: req.params (query/form values, always strings when *)
(* present) and the payload that req.get_json() parses.                    *)
(***************************************************************************)
\* Decimal integer literals a numeric parameter may carry.
IntLits == (0 - 1) .. (IF MaxK > MaxChunkLimit THEN MaxK ELSE MaxChunkLimit)

\* int(s): the integer a decimal literal denotes; ValueError otherwise.
PyInt(s) ==
    IF \E n \in IntLits : ToString(n) = s
    THEN [ok |-> TRUE, v |-> CHOOSE n \in IntLits : ToString(n) = s]
    ELSE [ok |-> FALSE, v |-> 0]

\* float(s), in tenths: integer literals and the decimal literal "0.5".
PyFloat(s) ==
    IF PyInt(s).ok THEN [ok |-> TRUE, v |-> 10 * PyInt(s).v]
    ELSE IF s = "0.5" THEN [ok |-> TRUE, v |-> 5]
    ELSE [ok |-> FALSE, v |-> 0]

\* float(req.params.get(name) or default) and int(... or default).
FloatParam(v, default) == IF Truthy(v) THEN PyFloat(v.s) ELSE [ok |-> TRUE, v |-> default]
IntParam(v, default) == IF Truthy(v) THEN PyInt(v.s) ELSE [ok |-> TRUE, v |-> default]

\* req.params.get(name) in ["True", True, None]
BoolParam_AbsentIsFalse(v) == v \in {Str("True"), PyTrue}
BoolParam(v) == v \in {Str("True"), PyTrue, None}

\* req.get_json(): ValueError on a payload that is not JSON, else the value.
JsonInvalid == [kind |-> "invalid", body |-> None]
JsonObject(b) == [kind |-> "object", body |-> b]
JsonArray == [kind |-> "array", body |-> None]

Unresolved ==
    [body |-> None, model |-> "", use_rag |-> FALSE, temperature |-> 0, top_p |-> 0,
     do_sample |-> FALSE, frequency_penalty |-> 0, presence_penalty |-> 0,
     max_new_tokens |-> 0, chunk_limit |-> 0, k |-> 0, prompt |-> ""]

(***************************************************************************)
(* rag.__init__: the prompt lookup, then the other parameters.  After a    *)
(* successful get_json() the name req is bound to the parsed payload, so   *)
(* the parameter reads that follow are made on the payload.                *)
(***************************************************************************)
rag__init__(r, model) ==
    LET p == r.params
        fromParams == Truthy(p.body)
        parsed == ~fromParams /\ r.json.kind # "invalid"
        body == IF fromParams \/ ~parsed THEN p.body ELSE r.json.body
        temperature == FloatParam(p.temperature, 9)
        top_p == FloatParam(p.top_p, 9)
        frequency_penalty == FloatParam(p.frequency_penalty, 0)
        presence_penalty == FloatParam(p.presence_penalty, 0)
        max_new_tokens == IntParam(p.max_new_tokens, 200)
        chunk_limit == IntParam(p.chunk_limit, 150)
        k == IntParam(p.k, 3)
        allOk == /\ temperature.ok /\ top_p.ok /\ frequency_penalty.ok
                 /\ presence_penalty.ok /\ max_new_tokens.ok /\ chunk_limit.ok /\ k.ok
    IN  IF parsed /\ r.json.kind = "array"
        THEN [error |-> Raise("AttributeError", "'list' object has no attribute 'get'"),
              self |-> Unresolved]
        ELSE IF parsed
        THEN [error |-> Raise("AttributeError", "'dict' object has no attribute 'params'"),
              self |-> [Unresolved EXCEPT !.body = body, !.model = model]]
        ELSE IF ~allOk
        THEN [error |-> Raise("ValueError", "could not convert string to a number"),
              self |-> [Unresolved EXCEPT !.body = body, !.model = model]]
        ELSE [error |-> NoError,
              self |-> [body |-> body, model |-> model,
                        use_rag |-> BoolParam(p.use_rag),
                        temperature |-> temperature.v, top_p |-> top_p.v,
                        do_sample |-> BoolParam(p.do_sample),
                        frequency_penalty |-> frequency_penalty.v,
                        presence_penalty |-> presence_penalty.v,
                        max_new_tokens |-> max_new_tokens.v,
                        chunk_limit |-> chunk_limit.v, k |-> k.v, prompt |-> ""]]

(***************************************************************************)
(* The collaborators of generate(): the chunk table `data`, the vector     *)
(* index `index`, and the replies of the embedding service.                *)
(***************************************************************************)
\* Row i (0-based) of the chunk table.
DataRow(i) ==
    [title |-> "t" \o ToString(i), url |-> "u" \o ToString(i), chunks |-> "c" \o ToString(i)]
data == [i \in 1 .. NumChunks |-> DataRow(i - 1)]

\* The orders in which the index may rank its vectors for a query.
Rankings ==
    {r \in [1 .. NumChunks -> 0 .. (NumChunks - 1)] : \A i, j \in 1 .. NumChunks : r[i] = r[j] => i = j}

\* index.search(embedding, k): k (score, id) pairs, best first; when the index
\* holds fewer than k vectors the tail is padded with id -1.
IndexSearch(ranking, k) ==
    [i \in 1 .. k |->
        IF i <= NumChunks THEN [score |-> NumChunks + 1 - i, id |-> ranking[i]]
        ELSE [score |-> 0 - 1, id |-> 0 - 1]]

\* data.iloc[ids]: positional lookup, a negative position counts from the end.
Iloc(table, ids) ==
    [i \in 1 .. Len(ids) |-> IF ids[i] < 0 THEN table[Len(table) + 1 + ids[i]] ELSE table[ids[i] + 1]]

\* seq[0:limit] with Python's slice rules.
PySlice_Unlimited(seq, limit) == seq
PySlice(seq, limit) ==
    LET n == Len(seq)
        stop == IF limit < 0 THEN (IF n + limit < 0 THEN 0 ELSE n + limit)
                ELSE (IF limit > n THEN n ELSE limit)
    IN  SubSeq(seq, 1, stop)

\* sep.join(strings)
RECURSIVE Join(_, _)
Join(sep, strings) ==
    IF Len(strings) = 0 THEN ""
    ELSE IF Len(strings) = 1 THEN strings[1]
    ELSE strings[1] \o sep \o Join(sep, Tail(strings))

\* The responses of the embedding service: the expected shape, {} without
\* "data", "data" empty, and a "data" entry without "embedding".
EmbedReplies == {"ok", "no_data", "empty_data", "no_embedding"}

\* rag._embed: a missing key is caught as KeyError e, and `raise e(...)` calls
\* the exception instance; an empty "data" list raises IndexError, not caught.
_embed(reply) ==
    CASE reply = "ok" -> [error |-> NoError, value |-> "vector"]
      [] reply \in {"no_data", "no_embedding"} ->
            [error |-> Raise("TypeError", "'KeyError' object is not callable"), value |-> ""]
      [] reply = "empty_data" ->
            [error |-> Raise("IndexError", "list index out of range"), value |-> ""]

\* rag._index
_index(ranking, k) == IndexSearch(ranking, k)

\* rag._entity_extractor
_entity_extractor == ""

Ids(h) == [i \in 1 .. Len(h) |-> h[i].id]
Column(rows) == [i \in 1 .. Len(rows) |-> rows[i].chunks]

\* generate(), lines 74-76: the chunks, the context and the prompt.
Context(h, chunk_limit) == Join(" | ", PySlice(Column(Iloc(data, Ids(h))), chunk_limit))
Prompt_AlwaysContext(body, use_rag, context) == "Answer: " \o body \o " " \o ("using: " \o context)
Prompt(body, use_rag, context) ==
    "Answer: " \o body \o " " \o (IF use_rag THEN "using: " \o context ELSE "")

\* generate(), line 92: the provenance records, one per retrieved row.
Sources_DropPadding(h) ==
    LET kept == SelectSeq(h, LAMBDA x : x.id >= 0)
        rows == Iloc(data, Ids(kept))
    IN  [i \in 1 .. Len(kept) |->
            [title |-> rows[i].title, similarity |-> kept[i].score,
             url |-> rows[i].url, chunks |-> rows[i].chunks]]
Sources(h) ==
    LET rows == Iloc(data, Ids(h))
    IN  [i \in 1 .. Len(h) |->
            [title |-> rows[i].title, similarity |-> h[i].score,
             url |-> rows[i].url, chunks |-> rows[i].chunks]]

(***************************************************************************)
(* The LLM backends.                                                       *)
(***************************************************************************)
\* The branch rag._augment takes for a model identifier.
Dispatch_FallThrough(model) ==
    IF model \in {"llama", "mistral"} THEN "ml_studio"
    ELSE IF model \in {"gpt35_4k", "gpt35_16k", "gpt4_1106"} THEN "ai_studio"
    ELSE "containerized"
Dispatch_QwenHosted(model) ==
    IF model \in {"llama", "mistral", "qwen"} THEN "ml_studio"
    ELSE IF model \in {"gpt35_4k", "gpt35_16k", "gpt4_1106"} THEN "ai_studio"
    ELSE "invalid"
Dispatch(model) ==
    IF model \in {"llama", "mistral"} THEN "ml_studio"
    ELSE IF model \in {"gpt35_4k", "gpt35_16k", "gpt4_1106"} THEN "ai_studio"
    ELSE IF model \in {"qwen"} THEN "containerized"
    ELSE "invalid"

\* The response shapes each backend may answer with: the expected shape, or
\* one that lacks a part of the path the sub-protocol reads.
BackendReplies(protocol) ==
    CASE protocol = "ml_studio" -> {"ok", "no_output"}
      [] protocol = "ai_studio" -> {"ok", "no_choices", "empty_choices", "no_message", "no_content"}
      [] protocol = "containerized" -> {"ok", "no_response"}

\* rag._ml_studio_model: response.get('output')
_ml_studio_model(reply) ==
    IF reply = "ok" THEN [error |-> NoError, value |-> Str("answer")]
    ELSE [error |-> NoError, value |-> None]

\* rag._ai_studio_model: response['choices'][0]['message'].get('content')
_ai_studio_model(reply) ==
    CASE reply = "ok" -> [error |-> NoError, value |-> Str("answer")]
      [] reply = "no_content" -> [error |-> NoError, value |-> None]
      [] reply \in {"no_choices", "no_message"} ->
            [error |-> Raise("TypeError", "'KeyError' object is not callable"), value |-> None]
      [] reply = "empty_choices" ->
            [error |-> Raise("IndexError", "list index out of range"), value |-> None]

\* rag._containerized_model: requests.post(...).json()['response']; the handler's
\* message reads the name `response`, which this function never binds.
_containerized_model(reply) ==
    IF reply = "ok" THEN [error |-> NoError, value |-> Str("answer")]
    ELSE [error |-> Raise("NameError", "name 'response' is not defined"), value |-> None]

SubProtocol(protocol, reply) ==
    CASE protocol = "ml_studio" -> _ml_studio_model(reply)
      [] protocol = "ai_studio" -> _ai_studio_model(reply)
      [] protocol = "containerized" -> _containerized_model(reply)

(***************************************************************************)
(* Cost accounting.                                                        *)
(***************************************************************************)
\* [input, output] cost per token, in units of 10^-9 dollar.
LLM_RATES ==
    [m \in {"gpt35_4k", "gpt35_16k", "gpt4_1106"} |->
        CASE m = "gpt35_4k" -> <<2100, 3000>>
          [] m = "gpt35_16k" -> <<700, 2100>>
          [] m = "gpt4_1106" -> <<41000, 82000>>]

\* Cost per embedded token, in units of 10^-9 dollar.
EMBED_COST == 136

\* utils.count_tokens on a string.
count_tokens(string) == Len(string)

\* The model identifiers a route may pass to the constructor.
Models == {"llama", "mistral", "gpt35_4k", "gpt35_16k", "gpt4_1106", "qwen", "gpt_16k", "unknown_model"}

(***************************************************************************)
(* The requests the model draws.                                           *)
(***************************************************************************)
BoolInputs == {None, Str("True"), Str("False"), Str("true"), Str(""), PyTrue}
FloatInputs == {None, Str(""), Str("0.5"), Str("1"), Str("abc")}
ChunkLimitInputs == {None} \cup {Str(ToString(n)) : n \in (0 - 1) .. MaxChunkLimit}
KInputs == {None} \cup {Str(ToString(n)) : n \in 1 .. MaxK}
BodyInputs == {None, Str(""), Str("q")}
JsonInputs == {JsonInvalid, JsonObject(None), JsonObject(Str("j")), JsonArray}

Requests(bodies, jsons, models, useRags, doSamples, temperatures, maxTokens) ==
    {[params |-> [body |-> b, use_rag |-> u, temperature |-> t, top_p |-> None,
                  do_sample |-> d, frequency_penalty |-> None, presence_penalty |-> None,
                  max_new_tokens |-> mt, chunk_limit |-> c, k |-> kk],
      json |-> j, model |-> m] :
        b \in bodies, j \in jsons, m \in models, u \in useRags, d \in doSamples,
        t \in temperatures, mt \in maxTokens, c \in ChunkLimitInputs, kk \in KInputs}

NoEnvelope == [response |-> None, sources |-> <<>>, parameters |-> Unresolved,
               tokens |-> [embed_in |-> 0, llm_in |-> 0, llm_out |-> 0],
               cost |-> [embed |-> 0, llm |-> 0, total |-> 0], entity |-> ""]
NoHttp == [kind |-> "none", status_code |-> 0, text |-> ""]
NoBodyMessage ==
    "This HTTP triggered function executed successfully. Pass a body in the query string or in the request body for a personalized response."

InitWith(requests) ==
    /\ req \in requests
    /\ self = Unresolved
    /\ pc = "request"
    /\ calls = <<>>
    /\ embedding = ""
    /\ hits = <<>>
    /\ response = None
    /\ http = NoHttp
    /\ envelope = NoEnvelope
    /\ error = NoError

\* The requests of the pipeline specification vary what generate() reads.
Init ==
    InitWith(Requests(BodyInputs, JsonInputs, Models, BoolInputs, {None},
                      {None, Str("abc")}, {None}))

\* The requests of the parameter specification vary every kind of raw value.
InitParams ==
    InitWith(Requests(BodyInputs, JsonInputs, {"gpt35_4k"}, BoolInputs, BoolInputs,
                      FloatInputs, {None, Str("1"), Str("0.5")}))

(***************************************************************************)
(* Actions.                                                                *)
(***************************************************************************)
Fail(e) ==
    /\ pc' = "failed"
    /\ error' = e

\* rag(req, model): the constructor.
Resolve ==
    /\ pc = "request"
    /\ LET r == rag__init__(req, req.model)
       IN  /\ self' = r.self
           /\ error' = r.error
           /\ pc' = IF r.error = NoError THEN "resolved" ELSE "failed"
    /\ UNCHANGED <<req, calls, embedding, hits, response, http, envelope>>

\* generate(), lines 123-127: no prompt.
NoBody ==
    /\ pc = "resolved"
    /\ ~Truthy(self.body)
    /\ http' = [kind |-> "text", status_code |-> 200, text |-> NoBodyMessage]
    /\ pc' = "done"
    /\ UNCHANGED <<req, self, calls, embedding, hits, response, envelope, error>>

\* generate(), line 71: the embedding call and its reply.
Embed ==
    /\ pc = "resolved"
    /\ Truthy(self.body)
    /\ \E reply \in EmbedReplies :
          LET r == _embed(reply)
          IN  /\ calls' = Append(calls, [to |-> "embedding", input |-> self.body.s,
                                         k |-> 0, reply |-> reply])
              /\ embedding' = r.value
              /\ IF r.error = NoError
                 THEN pc' = "embedded" /\ error' = error
                 ELSE Fail(r.error)
    /\ UNCHANGED <<req, self, hits, response, http, envelope>>

\* generate(), line 72: the index search.
Search ==
    /\ pc = "embedded"
    /\ \E ranking \in Rankings :
          /\ hits' = _index(ranking, self.k)
          /\ calls' = Append(calls, [to |-> "index", input |-> embedding,
                                     k |-> self.k, reply |-> "ok"])
    /\ pc' = "searched"
    /\ UNCHANGED <<req, self, embedding, response, http, envelope, error>>

\* generate(), lines 73-77: entity extraction, prompt assembly and _augment.
Augment ==
    /\ pc = "searched"
    /\ LET context == Context(hits, self.chunk_limit)
           prompt == Prompt(self.body.s, self.use_rag, context)
           protocol == Dispatch(self.model)
       IN  /\ self' = [self EXCEPT !.prompt = prompt]
           /\ IF protocol = "invalid"
              THEN /\ Fail(Raise("Exception", "Invalid model choice"))
                   /\ UNCHANGED <<calls, response>>
              ELSE \E reply \in BackendReplies(protocol) :
                      LET r == SubProtocol(protocol, reply)
                      IN  /\ calls' = Append(calls, [to |-> protocol, input |-> prompt,
                                                     k |-> 0, reply |-> reply])
                          /\ response' = r.value
                          /\ IF r.error = NoError
                             THEN pc' = "augmented" /\ error' = error
                             ELSE Fail(r.error)
    /\ UNCHANGED <<req, embedding, hits, http, envelope>>

\* generate(), lines 79-122: token counts, cost and the response envelope.
\* count_tokens on a response that is None either raises or counts nothing;
\* embed_cost + "N/A" raises TypeError.
Account ==
    /\ pc = "augmented"
    /\ \E tolerant \in (IF response = None THEN BOOLEAN ELSE {TRUE}) :
          LET embed_tokens == count_tokens(self.body.s)
              embed_cost == embed_tokens * EMBED_COST
              llm_tokens_in == count_tokens(self.prompt)
              llm_tokens_out == IF response = None THEN 0 ELSE count_tokens(response.s)
              rated == self.model \in DOMAIN LLM_RATES
              llm_cost == IF rated
                          THEN LLM_RATES[self.model][1] * llm_tokens_in
                               + LLM_RATES[self.model][2] * llm_tokens_out
                          ELSE 0
          IN  IF ~tolerant
              THEN /\ Fail(Raise("TypeError", "count_tokens: expected a string"))
                   /\ UNCHANGED <<http, envelope>>
              ELSE IF ~rated
              THEN /\ Fail(Raise("TypeError", "unsupported operand type(s) for +: 'float' and 'str'"))
                   /\ UNCHANGED <<http, envelope>>
              ELSE /\ envelope' =
                         [response |-> response, sources |-> Sources(hits),
                          parameters |-> self,
                          tokens |-> [embed_in |-> embed_tokens, llm_in |-> llm_tokens_in,
                                      llm_out |-> llm_tokens_out],
                          cost |-> [embed |-> embed_cost, llm |-> llm_cost,
                                    total |-> embed_cost + llm_cost],
                          entity |-> _entity_extractor]
                   /\ http' = [kind |-> "json", status_code |-> 200, text |-> ""]
                   /\ pc' = "done"
                   /\ error' = error
    /\ UNCHANGED <<req, self, calls, embedding, hits, response>>

Next == Resolve \/ NoBody \/ Embed \/ Search \/ Augment \/ Account

Spec == Init /\ [][Next]_vars

NextParams == Resolve

SpecParams == InitParams /\ [][NextParams]_vars

(***************************************************************************)
(* Vocabulary of the properties below.                                     *)
(***************************************************************************)
LLMBackends == {"ml_studio", "ai_studio", "containerized"}
LLMCalls == SelectSeq(calls, LAMBDA c : c.to \in LLMBackends)
CallOrder == [i \in 1 .. Len(calls) |-> calls[i].to]

\* The three groups of identifiers that lines 172-176 of backend.py list.
HostedModels == {"llama", "mistral"}
ManagedChatModels == {"gpt35_4k", "gpt35_16k", "gpt4_1106"}
SelfHostedModels == {"qwen"}
CodeModels == HostedModels \cup ManagedChatModels \cup SelfHostedModels

\* _augment has run: the search is logged and the pipeline is past it.
Augmented == Len(calls) >= 2 /\ pc \in {"augmented", "done", "failed"}
InvalidModelError == Raise("Exception", "Invalid model choice")
EnvelopeReturned == http.kind = "json"

\* Every numeric parameter of the request parses.
NumericParamsParse ==
    /\ FloatParam(req.params.temperature, 9).ok
    /\ FloatParam(req.params.top_p, 9).ok
    /\ FloatParam(req.params.frequency_penalty, 0).ok
    /\ FloatParam(req.params.presence_penalty, 0).ok
    /\ IntParam(req.params.max_new_tokens, 200).ok
    /\ IntParam(req.params.chunk_limit, 150).ok
    /\ IntParam(req.params.k, 3).ok

\* generate() is running or has run: the constructor returned.
GenerateCalled == pc # "request" /\ ~(pc = "failed" /\ calls = <<>>)

(***************************************************************************)
(* C1: a request with a prompt and a model identifier outside the three    *)
(* groups never causes an LLM backend call and never yields a response     *)
(* envelope; _augment never returns a response for it, and once the        *)
(* dispatch has run the request has failed with "Invalid model choice".    *)
(***************************************************************************)
C1_InvalidModelRejected ==
    (pc # "request" /\ Truthy(self.body) /\ req.model \notin CodeModels) =>
        /\ Len(LLMCalls) = 0
        /\ ~EnvelopeReturned /\ envelope = NoEnvelope
        /\ pc \notin {"augmented", "done"}
        /\ response = None
        /\ Augmented => (pc = "failed" /\ error = InvalidModelError)

C1_Witness ==
    /\ pc = "failed" /\ req.model = "unknown_model" /\ Truthy(self.body)
    /\ Augmented /\ error = InvalidModelError
    /\ CallOrder = <<"embedding", "index">>

(***************************************************************************)
(* C2: a request with no `body` parameter whose payload is not JSON or is  *)
(* a JSON object without a `body` field ends with the fixed plain-text     *)
(* message, status 200, and no outbound call.  (Stated for requests whose  *)
(* numeric parameters parse.)                                              *)
(***************************************************************************)
C2_NoPromptGivesInstructions ==
    (/\ pc \in {"done", "failed"}
     /\ req.params.body = None
     /\ req.json \in {JsonInvalid, JsonObject(None)}
     /\ NumericParamsParse) =>
        /\ pc = "done"
        /\ http = [kind |-> "text", status_code |-> 200, text |-> NoBodyMessage]
        /\ calls = <<>>

(***************************************************************************)
(* C3: when the embedding service answers {} (no `data` field) the request *)
(* fails with the embedding-service error that _embed's raise statement    *)
(* names, after exactly one embedding call, with no search, no LLM call    *)
(* and no response.                                                        *)
(***************************************************************************)
EmbeddingServiceError(e) ==
    /\ e.type = "KeyError"
    /\ e.msg = "ADA embedding API failed to embed: " \o self.body.s

C3_EmbeddingShapeError ==
    (Len(calls) >= 1 /\ calls[1].reply = "no_data") =>
        /\ pc = "failed"
        /\ EmbeddingServiceError(error)
        /\ CallOrder = <<"embedding">>
        /\ http = NoHttp

(***************************************************************************)
(* C4: whenever cost accounting is reached after a well-formed backend     *)
(* answer, generate() returns the envelope and its total cost is the embed *)
(* cost plus the LLM cost when the model has a rate entry, and the embed   *)
(* cost alone when it has none (llama, mistral, qwen).                     *)
(***************************************************************************)
C4_TotalCostAlwaysNumeric ==
    (/\ pc \in {"done", "failed"}
     /\ Len(calls) = 3
     /\ calls[3].reply = "ok") =>
        /\ pc = "done"
        /\ EnvelopeReturned
        /\ envelope.cost.embed = Len(self.body.s) * EMBED_COST
        /\ envelope.cost.total =
              envelope.cost.embed
              + (IF self.model \in ManagedChatModels THEN envelope.cost.llm ELSE 0)

(***************************************************************************)
(* C5: a backend reply that lacks the field its sub-protocol reads makes   *)
(* the request fail with the backend-protocol error (raw response and      *)
(* remediation hint); no missing value becomes the response text and no    *)
(* envelope is produced.                                                   *)
(***************************************************************************)
BackendProtocolError(e) ==
    /\ e.type = "KeyError"
    /\ e.msg = "model failed to generate prompt with the given context. Try setting use_rag to False to see if it is an issue with the context. Response object: " \o calls[3].reply

C5_MissingFieldIsProtocolError ==
    (Len(calls) = 3 /\ calls[3].reply # "ok") =>
        /\ pc = "failed"
        /\ BackendProtocolError(error)
        /\ ~EnvelopeReturned

(***************************************************************************)
(* C6: the prompt is the `body` parameter when present; when it is absent  *)
(* and the payload parses as a JSON object with a `body` field, resolution *)
(* completes with that field as the prompt and the other parameters taken  *)
(* from the query/form parameters or their defaults; a payload that is not *)
(* JSON is treated as no prompt, never as an error.  (Stated for requests  *)
(* whose numeric parameters parse.)                                        *)
(***************************************************************************)
C6_JsonBodyBecomesPrompt ==
    (pc # "request" /\ NumericParamsParse) =>
        /\ Truthy(req.params.body) => (pc = "resolved" /\ self.body = req.params.body)
        /\ (req.params.body = None /\ req.json = JsonInvalid) =>
              (pc = "resolved" /\ self.body = None)
        /\ (req.params.body = None /\ req.json = JsonObject(Str("j"))) =>
              /\ pc = "resolved"
              /\ self.body = Str("j")
              /\ self.use_rag = (req.params.use_rag \in {None, Str("True"), PyTrue})
              /\ self.temperature = FloatParam(req.params.temperature, 9).v
              /\ self.chunk_limit = IntParam(req.params.chunk_limit, 150).v
              /\ self.k = IntParam(req.params.k, 3).v

(***************************************************************************)
(* C7, as stated: for use_rag and do_sample the resolved value is false    *)
(* for "False", true for an absent parameter, "True" or a native true, and *)
(* "False" is the only value that resolves to false.                       *)
(***************************************************************************)
C7_OnlyFalseGivesFalse ==
    pc = "resolved" =>
        \A f \in {"use_rag", "do_sample"} :
            /\ req.params[f] = Str("False") => self[f] = FALSE
            /\ req.params[f] \in {None, Str("True"), PyTrue} => self[f] = TRUE
            /\ self[f] = FALSE => req.params[f] = Str("False")

(***************************************************************************)
(* C7, amended: for use_rag and do_sample the resolved value is true       *)
(* exactly when the parameter is absent, "True" or a native true; every    *)
(* other supplied value, "False" among them, resolves to false.            *)
(***************************************************************************)
C7_TrueIffAbsentOrTrue ==
    pc = "resolved" =>
        \A f \in {"use_rag", "do_sample"} :
            /\ self[f] = TRUE <=> req.params[f] \in {None, Str("True"), PyTrue}
            /\ req.params[f] = Str("False") => self[f] = FALSE

C7_Witness ==
    /\ pc = "resolved"
    /\ req.params.use_rag = Str("true") /\ self.use_rag = FALSE
    /\ req.params.do_sample = None /\ self.do_sample = TRUE

(***************************************************************************)
(* C8, as stated: once _augment has run for llama, mistral (hosted         *)
(* inference), gpt35_4k, gpt35_16k, gpt_16k, gpt4_1106 (managed chat       *)
(* completion) or qwen (self-hosted), exactly one LLM call was made, to    *)
(* that sub-protocol, and the identifier was not rejected.                 *)
(***************************************************************************)
ExpectedProtocol(m) ==
    IF m \in HostedModels THEN "ml_studio"
    ELSE IF m \in ManagedChatModels \cup {"gpt_16k"} THEN "ai_studio"
    ELSE "containerized"

DispatchedOnce(m) ==
    /\ Len(LLMCalls) = 1
    /\ LLMCalls[1].to = ExpectedProtocol(m)
    /\ CallOrder = <<"embedding", "index", ExpectedProtocol(m)>>
    /\ error # InvalidModelError

C8_DeclaredModelsDispatched ==
    (Augmented /\ req.model \in CodeModels \cup {"gpt_16k"}) => DispatchedOnce(req.model)

(***************************************************************************)
(* C8, amended: once _augment has run for llama, mistral, gpt35_4k,        *)
(* gpt35_16k, gpt4_1106 or qwen, exactly one LLM call was made, to the     *)
(* identifier's sub-protocol, and the identifier was not rejected; gpt_16k *)
(* is not among the identifiers of this backend and is rejected as an      *)
(* invalid model without any LLM call.                                     *)
(***************************************************************************)
C8_CodeModelsDispatched ==
    /\ (Augmented /\ req.model \in CodeModels) => DispatchedOnce(req.model)
    /\ (Augmented /\ req.model = "gpt_16k") =>
          (Len(LLMCalls) = 0 /\ pc = "failed" /\ error = InvalidModelError)
    /\ (~Augmented) => Len(LLMCalls) = 0

C8_Witness ==
    /\ Augmented /\ req.model = "qwen"
    /\ CallOrder = <<"embedding", "index", "containerized">>
    /\ pc = "augmented"

(***************************************************************************)
(* C9: the chunk texts of the search result in retrieval order.  A padded  *)
(* id (-1) is looked up from the end of the table, as data.iloc does.      *)
(***************************************************************************)
RetrievedText(i) == IF hits[i].id < 0 THEN data[NumChunks].chunks ELSE data[hits[i].id + 1].chunks

RECURSIVE FirstChunks(_)
FirstChunks(n) ==
    IF n <= 0 THEN ""
    ELSE IF n = 1 THEN RetrievedText(1)
    ELSE FirstChunks(n - 1) \o " | " \o RetrievedText(n)

Min(a, b) == IF a < b THEN a ELSE b
Max(a, b) == IF a > b THEN a ELSE b

PromptWith(n) ==
    "Answer: " \o self.body.s \o " " \o (IF self.use_rag THEN "using: " \o FirstChunks(n) ELSE "")

PromptSent ==
    /\ self.use_rag = FALSE => self.prompt = "Answer: " \o self.body.s \o " "
    /\ \A i \in 1 .. Len(calls) : calls[i].to \in LLMBackends => calls[i].input = self.prompt

IsPrefix(a, b) == Len(a) <= Len(b) /\ \A i \in 1 .. Len(a) : a[i] = b[i]
AllRepliesOk == \A i \in 1 .. Len(calls) : calls[i].reply = "ok"

C10_OneCallEachInOrder ==
    (GenerateCalled /\ Truthy(self.body) /\ req.model \in ManagedChatModels) =>
        /\ IsPrefix(CallOrder, <<"embedding", "index", "ai_studio">>)
        /\ Len(calls) >= 2 => calls[2].k = self.k /\ Len(hits) = self.k
        /\ (pc \in {"done", "failed"} /\ AllRepliesOk) =>
              /\ pc = "done" /\ EnvelopeReturned
              /\ CallOrder = <<"embedding", "index", "ai_studio">>
              /\ Len(envelope.sources) = self.k
              /\ \A i \in 1 .. self.k :
                    /\ envelope.sources[i].similarity = hits[i].score
                    /\ envelope.sources[i].chunks = RetrievedText(i)
              /\ \A i, j \in 1 .. Len(envelope.sources) :
                    i < j => envelope.sources[i].similarity >= envelope.sources[j].similarity
              /\ envelope.response = Str("answer")

C10_Witness ==
    /\ pc = "done" /\ EnvelopeReturned /\ req.model = "gpt35_4k"
    /\ self.use_rag = FALSE /\ self.k = 2
    /\ Len(envelope.sources) = 2
    /\ envelope.sources[1].similarity > envelope.sources[2].similarity
    /\ CallOrder = <<"embedding", "index", "ai_studio">>

====
